---- MODULE Spec2Model ----
(***************************************************************************)
(* A model of pke/utils.py: the n-gram document-frequency aggregation      *)
(* (compute_document_frequency), its reader                                *)
(* (load_document_frequency_file), the reference loader (load_references)  *)
(* and the training-set assembly (train_supervised_model).                 *)
(*                                                                         *)
(* Strings are sequences of one-character strings, so that join, split,    *)
(* strip, lower, str and int are computed the way the code computes them.  *)
(***************************************************************************)
EXTENDS Integers, Sequences, FiniteSets, TLC

(***************************************************************************)
(* Bounds of the model.                                                    *)
(***************************************************************************)
MaxLen == 3        \* tokens per sentence (span enumeration)
MaxN == 3          \* largest n-gram order tried
MaxDocs == 2       \* documents in the corpus
MaxSents == 2      \* sentences per document
MaxDocLen == 2     \* tokens per sentence in the corpus run
MaxLines == 2      \* lines of the reference file
MaxLineLen == 4    \* characters per line of the reference file
MaxStem == 3       \* characters of a file name before ".xml"
MaxCands == 2      \* candidates per document

(***************************************************************************)
(* Python string primitives.                                               *)
(***************************************************************************)
Min(a, b) == IF a <= b THEN a ELSE b

SeqsUpTo(S, m) == UNION {[1..i -> S] : i \in 0..m}

\* str.lower() on one character
LowerChar(c) ==
    CASE c = "A" -> "a"
      [] c = "B" -> "b"
      [] OTHER -> c

\* str.lower()
Lower(s) == [i \in 1..Len(s) |-> LowerChar(s[i])]

\* sep.join(parts)
RECURSIVE Join(_, _)
Join(parts, sep) ==
    IF Len(parts) = 0 THEN <<>>
    ELSE IF Len(parts) = 1 THEN parts[1]
    ELSE parts[1] \o sep \o Join(Tail(parts), sep)

\* s.split(c) for a one-character separator c: always at least one piece
RECURSIVE Split(_, _)
Split(s, c) ==
    IF \A i \in 1..Len(s) : s[i] # c THEN <<s>>
    ELSE LET i == CHOOSE x \in 1..Len(s) :
                      s[x] = c /\ \A y \in 1..(x-1) : s[y] # c
         IN  <<SubSeq(s, 1, i-1)>> \o Split(SubSeq(s, i+1, Len(s)), c)

IsSpace(c) == c \in {" ", "\n"}

\* s.strip()
RECURSIVE Strip(_)
Strip(s) ==
    IF Len(s) = 0 THEN s
    ELSE IF IsSpace(s[1]) THEN Strip(Tail(s))
    ELSE IF IsSpace(s[Len(s)]) THEN Strip(SubSeq(s, 1, Len(s)-1))
    ELSE s

\* s.split(): split on runs of whitespace, no empty pieces
RECURSIVE Words(_)
Words(s) ==
    LET t == Strip(s) IN
    IF Len(t) = 0 THEN <<>>
    ELSE IF \A i \in 1..Len(t) : ~IsSpace(t[i]) THEN <<t>>
    ELSE LET i == CHOOSE x \in 1..Len(t) :
                      IsSpace(t[x]) /\ \A y \in 1..(x-1) : ~IsSpace(t[y])
         IN  <<SubSeq(t, 1, i-1)>> \o Words(SubSeq(t, i+1, Len(t)))

\* s.endswith(suffix)
EndsWith(s, suffix) ==
    /\ Len(s) >= Len(suffix)
    /\ SubSeq(s, Len(s) - Len(suffix) + 1, Len(s)) = suffix

Digits == <<"0", "1", "2", "3", "4", "5", "6", "7", "8", "9">>

\* str(i) for i >= 0
RECURSIVE Str(_)
Str(i) ==
    IF i < 10 THEN <<Digits[i+1]>>
    ELSE Str(i \div 10) \o <<Digits[(i % 10) + 1]>>

IsNumber(s) ==
    /\ Len(s) > 0
    /\ \A i \in 1..Len(s) : \E d \in 1..10 : Digits[d] = s[i]

DigitValue(c) == (CHOOSE d \in 1..10 : Digits[d] = c) - 1

\* int(s) for a string of digits
RECURSIVE Int_(_)
Int_(s) ==
    IF Len(s) = 0 THEN 0
    ELSE 10 * Int_(SubSeq(s, 1, Len(s)-1)) + DigitValue(s[Len(s)])

\* The elements of a set in some fixed order (a dict's iteration order)
RECURSIVE SetToSeq(_)
SetToSeq(S) ==
    IF S = {} THEN <<>>
    ELSE LET x == CHOOSE y \in S : TRUE IN <<x>> \o SetToSeq(S \ {x})

RECURSIVE Concat(_)
Concat(ss) == IF Len(ss) = 0 THEN <<>> ELSE ss[1] \o Concat(Tail(ss))

(***************************************************************************)
(* State.                                                                  *)
(***************************************************************************)
VARIABLES
    pc,                  \* where the running function is / how it ended
    stoplist,            \* compute_document_frequency: [none, words]
    n,                   \* compute_document_frequency: n-gram order
    output_file,         \* compute_document_frequency: output path
    files,               \* glob.glob(input_dir+'/*.'+extension)
    idx,                 \* number of files the for loop has finished
    frequencies,         \* defaultdict(set): ngram -> presence set
    nb_documents,        \* compute_document_frequency: document counter
    fs,                  \* the output file on disk: [exists, bytes]
    loaded,              \* result of load_document_frequency_file
    readLog,             \* input files whose read was attempted
    unreadable,          \* input files whose read raised
    emitted,             \* file -> (ngram -> number of times it was emitted)
    sentence,            \* the sentence of the span loops
    j,                   \* start index of the span loops
    k,                   \* end index of the span loops
    considered,          \* spans the span loops have reached so far
    lastSpan,            \* the span reached by the last step: [j, k, stopped]
    references,          \* load_references: defaultdict(list), doc_id -> entries
    reference_stemming,  \* load_references: the flag
    lineNo,              \* load_references: lines read so far
    line,                \* load_references: the line read last
    appended,            \* doc_id -> the entries as the append calls received them
    listed,              \* doc_id -> the keyphrase tokens listed on the lines read
    training_instances,  \* train_supervised_model: the instance array
    training_classes,    \* train_supervised_model: the label array
    docIds,              \* the doc_id computed for each file, in order
    selected             \* the candidates of each file, in iteration order

dfVars == <<pc, stoplist, n, output_file, files, idx, frequencies,
            nb_documents, fs, loaded, readLog, unreadable, emitted>>

enumVars == <<sentence, j, k, considered, lastSpan>>

refVars == <<references, reference_stemming, lineNo, line, appended, listed>>

trainVars == <<training_instances, training_classes, docIds, selected>>

vars == <<dfVars, enumVars, refVars, trainVars>>

(***************************************************************************)
(* Inputs: tokens as the document loader delivers them (surface word and   *)
(* stem), stoplists, output paths.                                         *)
(***************************************************************************)
Tokens ==
    { [word |-> <<"A">>,      stem |-> <<"a">>],
      [word |-> <<"a">>,      stem |-> <<"a">>],
      [word |-> <<"B", "s">>, stem |-> <<"B">>] }

StopWords == { <<"a">>, <<"b", "s">> }

NoStoplist == [none |-> TRUE, words |-> {}]

Stoplists == { [none |-> FALSE, words |-> W] : W \in SUBSET StopWords }

NValues == 0..MaxN

OutputFiles == { <<"d", "f">>, <<"d", "f", ".", "g", "z">> }

GzSuffix == <<".", "g", "z">>

Tab == "\t"

Newline == "\n"

Sentinel == <<"-", "-", "N", "B", "_", "D", "O", "C", "-", "-">>

\* the i-th path the glob returns
InputFile(i) == <<"c", "/">> \o Str(i) \o <<".", "x", "m", "l">>

(***************************************************************************)
(* compute_document_frequency: the span loops of one sentence.             *)
(***************************************************************************)
\* skip = min(n, sentence.length)
Skip(nn, L) == Min(nn, L)

\* the range end with the longest span of every start left out
UpperShort(jj, L, nn) == Min(jj + Skip(nn, L), L + 1)

\* the end of range(j+1, min(j+1+skip, sentence.length+1))
Upper(jj, L, nn) == Min(jj + 1 + Skip(nn, L), L + 1)

\* the (j, k) pairs the two nested for loops run through
SpanRange(L, nn) ==
    { sp \in (0..(L-1)) \X (1..L) : sp[1] + 1 <= sp[2] /\ sp[2] < Upper(sp[1], L, nn) }

\* lowercase_words[j:k]
LowercaseWords(sent, jj, kk) == { Lower(sent[i].word) : i \in (jj+1)..kk }

\* a filter that looks at the first token of the span only
StoppedFirstOnly(sent, jj, kk, stop) == Lower(sent[jj + 1].word) \in stop.words

\* set(lowercase_words[j:k]).intersection(stoplist)
Stopped(sent, jj, kk, stop) == LowercaseWords(sent, jj, kk) \cap stop.words # {}

\* ' '.join(sentence.stems[j:k]).lower()
Ngram(sent, jj, kk) ==
    Lower(Join([i \in 1..(kk - jj) |-> sent[jj + i].stem], <<" ">>))

\* a presence mark per occurrence instead of per document
MarkOccurrence(input_file, s, jj, kk) == <<input_file, s, jj, kk>>

\* what frequencies[ngram].add(input_file) puts into the presence set
Mark(input_file, s, jj, kk) == input_file

\* frequencies[ngram].add(...) for a set of spans <<s, j, k>> of a document
AddSpans(freq, input_file, doc, spans) ==
    LET keys == { Ngram(doc[sp[1]], sp[2], sp[3]) : sp \in spans }
    IN  [ key \in (DOMAIN freq) \cup keys |->
            (IF key \in DOMAIN freq THEN freq[key] ELSE {})
            \cup { Mark(input_file, sp[1], sp[2], sp[3]) :
                     sp \in { x \in spans : Ngram(doc[x[1]], x[2], x[3]) = key } } ]

NoFile == [exists |-> FALSE, bytes |-> <<>>]

NotLoaded == [status |-> "not loaded", frequencies |-> <<>>]

NoSpan == [j |-> -1, k |-> -1, stopped |-> FALSE]

\* the state of the variables the span loops do not use
IdleDf ==
    /\ output_file = <<>>
    /\ files = <<InputFile(1)>>
    /\ idx = 0
    /\ nb_documents = 0
    /\ fs = NoFile
    /\ loaded = NotLoaded
    /\ readLog = {}
    /\ unreadable = {}
    /\ emitted = <<>>

IdleRef ==
    /\ references = <<>>
    /\ reference_stemming = FALSE
    /\ lineNo = 0
    /\ line = <<>>
    /\ appended = <<>>
    /\ listed = <<>>

IdleTrain ==
    /\ training_instances = <<>>
    /\ training_classes = <<>>
    /\ docIds = <<>>
    /\ selected = <<>>

InitEnum ==
    /\ IdleDf
    /\ IdleRef
    /\ IdleTrain
    /\ pc = "spans"
    /\ stoplist \in Stoplists
    /\ n \in NValues
    /\ sentence \in SeqsUpTo(Tokens, MaxLen)
    /\ frequencies = <<>>
    /\ j = 0
    /\ k = 1
    /\ considered = 0
    /\ lastSpan = NoSpan

enumFixed == <<stoplist, n, output_file, files, idx, nb_documents, fs, loaded,
               readLog, unreadable, emitted, sentence, refVars, trainVars>>

\* the inner loop reaches [j, k) and the span passes the stoplist test
EmitSpan ==
    /\ pc = "spans"
    /\ j < Len(sentence)
    /\ k < Upper(j, Len(sentence), n)
    /\ ~Stopped(sentence, j, k, stoplist)
    /\ frequencies' = AddSpans(frequencies, files[1], <<sentence>>, {<<1, j, k>>})
    /\ considered' = considered + 1
    /\ lastSpan' = [j |-> j, k |-> k, stopped |-> FALSE]
    /\ k' = k + 1
    /\ UNCHANGED <<pc, j, enumFixed>>

\* the inner loop reaches [j, k) and the stoplist test says continue
SkipSpan ==
    /\ pc = "spans"
    /\ j < Len(sentence)
    /\ k < Upper(j, Len(sentence), n)
    /\ Stopped(sentence, j, k, stoplist)
    /\ considered' = considered + 1
    /\ lastSpan' = [j |-> j, k |-> k, stopped |-> TRUE]
    /\ k' = k + 1
    /\ UNCHANGED <<pc, j, frequencies, enumFixed>>

\* the inner range is exhausted: next start index
NextStart ==
    /\ pc = "spans"
    /\ j < Len(sentence)
    /\ k >= Upper(j, Len(sentence), n)
    /\ j' = j + 1
    /\ k' = j + 2
    /\ UNCHANGED <<pc, frequencies, considered, lastSpan, enumFixed>>

\* the outer range is exhausted
EndSentence ==
    /\ pc = "spans"
    /\ j >= Len(sentence)
    /\ pc' = "sentence done"
    /\ UNCHANGED <<j, k, frequencies, considered, lastSpan, enumFixed>>

NextEnum == EmitSpan \/ SkipSpan \/ NextStart \/ EndSentence

SpecEnum == InitEnum /\ [][NextEnum]_vars

(***************************************************************************)
(* compute_document_frequency over a corpus, one document per step, and    *)
(* load_document_frequency_file.                                           *)
(***************************************************************************)
\* what the document loader can deliver for one file
Documents == SeqsUpTo(SeqsUpTo(Tokens, MaxDocLen), MaxSents)

\* every <<sentence index, j, k>> the loops reach in a document
DocSpans(doc, nn) ==
    UNION { { <<s, sp[1], sp[2]>> : sp \in SpanRange(Len(doc[s]), nn) } :
            s \in 1..Len(doc) }

\* the spans that get past the stoplist test
KeptSpans(doc, nn, stop) ==
    { sp \in DocSpans(doc, nn) : ~Stopped(doc[sp[1]], sp[2], sp[3], stop) }

\* ngram -> number of times the loops emitted it for the document
Emissions(doc, nn, stop) ==
    LET kept == KeptSpans(doc, nn, stop)
        keys == { Ngram(doc[sp[1]], sp[2], sp[3]) : sp \in kept }
    IN  [ key \in keys |->
            Cardinality({ sp \in kept : Ngram(doc[sp[1]], sp[2], sp[3]) = key }) ]

\* ngram + delimiter + str(len(frequencies[ngram])) + '\n'
Row(key, count, delimiter) == key \o <<delimiter>> \o Str(count) \o <<Newline>>

\* everything the dump writes into the stream
TableText(freq, nb, delimiter) ==
    Row(Sentinel, nb, delimiter)
    \o Concat([i \in 1..Cardinality(DOMAIN freq) |->
                 LET key == SetToSeq(DOMAIN freq)[i]
                 IN  Row(key, Cardinality(freq[key]), delimiter)])

\* first bytes of a gzip stream (magic number ... NUL-terminated name)
GzHeader == <<"GZ", "NUL">>

\* what gzip.open(path, 'w') stores for the text written through it
Gzip(text) == GzHeader \o text

\* what gzip.open(path, 'r') delivers
Gunzip(bytes) ==
    IF Len(bytes) >= Len(GzHeader) /\ SubSeq(bytes, 1, Len(GzHeader)) = GzHeader
    THEN [ok |-> TRUE, text |-> SubSeq(bytes, Len(GzHeader) + 1, Len(bytes))]
    ELSE [ok |-> FALSE, text |-> <<>>]

\* the lines a file object iterates over
Lines(text) ==
    LET pieces == Split(text, Newline)
    IN  IF pieces[Len(pieces)] = <<>> THEN SubSeq(pieces, 1, Len(pieces) - 1)
        ELSE pieces

\* csv.reader(f, delimiter=delimiter): the rows, or an error on a NUL byte
CsvRows(text, delimiter) ==
    IF \E i \in 1..Len(text) : text[i] = "NUL"
    THEN [ok |-> FALSE, rows |-> <<>>]
    ELSE [ok |-> TRUE,
          rows |-> [i \in 1..Len(Lines(text)) |-> Split(Lines(text)[i], delimiter)]]

\* for row in df_reader: frequencies[row[0]] = int(row[1])
RowsToDict(rows) ==
    IF \E i \in 1..Len(rows) : Len(rows[i]) < 2 \/ ~IsNumber(rows[i][2])
    THEN [status |-> "error", frequencies |-> <<>>]
    ELSE [status |-> "ok",
          frequencies |->
            [ key \in { rows[i][1] : i \in 1..Len(rows) } |->
                LET last == CHOOSE i \in 1..Len(rows) :
                               /\ rows[i][1] = key
                               /\ \A m \in (i+1)..Len(rows) : rows[m][1] # key
                IN  Int_(rows[last][2]) ]]

\* load_document_frequency_file(input_file, delimiter)
LoadDocumentFrequencyFile(input_file, file, delimiter) ==
    IF ~file.exists THEN [status |-> "error", frequencies |-> <<>>]
    ELSE IF EndsWith(input_file, GzSuffix)
    THEN IF Gunzip(file.bytes).ok
         THEN RowsToDict(CsvRows(Gunzip(file.bytes).text, delimiter).rows)
         ELSE [status |-> "error", frequencies |-> <<>>]
    ELSE IF CsvRows(file.bytes, delimiter).ok
         THEN RowsToDict(CsvRows(file.bytes, delimiter).rows)
         ELSE [status |-> "error", frequencies |-> <<>>]

IdleEnum ==
    /\ sentence = <<>>
    /\ j = 0
    /\ k = 1
    /\ considered = 0
    /\ lastSpan = NoSpan

InitDF ==
    /\ IdleEnum
    /\ IdleRef
    /\ IdleTrain
    /\ pc = "documents"
    /\ stoplist \in Stoplists \cup {NoStoplist}
    /\ n \in NValues
    /\ output_file \in OutputFiles
    /\ files \in { [i \in 1..m |-> InputFile(i)] : m \in 0..MaxDocs }
    /\ idx = 0
    /\ frequencies = <<>>
    /\ nb_documents = 0
    /\ fs = NoFile
    /\ loaded = NotLoaded
    /\ readLog = {}
    /\ unreadable = {}
    /\ emitted = <<>>

dfFixed == <<stoplist, n, output_file, files, enumVars, refVars, trainVars>>

\* doc.read_document(...) raises: nothing catches it
ReadDocumentFails ==
    /\ pc = "documents"
    /\ idx < Len(files)
    /\ readLog' = readLog \cup {files[idx + 1]}
    /\ unreadable' = unreadable \cup {files[idx + 1]}
    /\ pc' = "DocumentReadError"
    /\ UNCHANGED <<idx, frequencies, nb_documents, fs, loaded, emitted, dfFixed>>

\* stoplist is None and the loops reach a first span: intersection(None) raises
StoplistTypeError ==
    /\ pc = "documents"
    /\ idx < Len(files)
    /\ stoplist.none
    /\ \E doc \in Documents : DocSpans(doc, n) # {}
    /\ readLog' = readLog \cup {files[idx + 1]}
    /\ pc' = "TypeError"
    /\ UNCHANGED <<idx, frequencies, nb_documents, fs, loaded, unreadable, emitted,
                   dfFixed>>

\* one pass of the for loop over the files: read, enumerate, count
CountDocument ==
    /\ pc = "documents"
    /\ idx < Len(files)
    /\ \E doc \in Documents :
         /\ ~(stoplist.none /\ DocSpans(doc, n) # {})
         /\ frequencies' = AddSpans(frequencies, files[idx + 1], doc,
                                    KeptSpans(doc, n, stoplist))
         /\ emitted' = [ f \in DOMAIN emitted \cup {files[idx + 1]} |->
                           IF f = files[idx + 1] THEN Emissions(doc, n, stoplist)
                           ELSE emitted[f] ]
    /\ readLog' = readLog \cup {files[idx + 1]}
    /\ nb_documents' = nb_documents + 1
    /\ idx' = idx + 1
    /\ UNCHANGED <<pc, fs, loaded, unreadable, dfFixed>>

\* with gzip.open(output_file, 'w') as f: ... the dump of the container
DumpTable ==
    /\ pc = "documents"
    /\ idx = Len(files)
    /\ fs' = [exists |-> TRUE,
              bytes |-> Gzip(TableText(frequencies, nb_documents, Tab))]
    /\ pc' = "done"
    /\ UNCHANGED <<idx, frequencies, nb_documents, loaded, readLog, unreadable,
                   emitted, dfFixed>>

\* load_document_frequency_file(output_file) after the run
LoadTable ==
    /\ pc = "done"
    /\ loaded.status = "not loaded"
    /\ loaded' = LoadDocumentFrequencyFile(output_file, fs, Tab)
    /\ UNCHANGED <<pc, idx, frequencies, nb_documents, fs, readLog, unreadable,
                   emitted, dfFixed>>

NextDF ==
    \/ ReadDocumentFails
    \/ StoplistTypeError
    \/ CountDocument
    \/ DumpTable
    \/ LoadTable

SpecDF == InitDF /\ [][NextDF]_vars

(***************************************************************************)
(* load_references, one line of the file per step.                         *)
(***************************************************************************)
RefChars == {"s", ":", ",", "+", " "}

RefLines == SeqsUpTo(RefChars, MaxLineLen)

Colon == ":"

Comma == ","

Plus == "+"

\* a stub for Stemmer(stemmer).stem(u): strips one plural "s"
Stem(u) ==
    IF Len(u) > 1 /\ u[Len(u)] = "s" THEN SubSeq(u, 1, Len(u) - 1) ELSE u

\* ' '.join([Stemmer(stemmer).stem(u) for u in k.split()])
StemPhrase(kp) == Join([i \in 1..Len(Words(kp)) |-> Stem(Words(kp)[i])], <<" ">>)

\* the inner loops over keyphrases: '+' variants become separate entries
RECURSIVE ExpandPlus(_)
ExpandPlus(keyphrases) ==
    IF Len(keyphrases) = 0 THEN <<>>
    ELSE (IF \E i \in 1..Len(keyphrases[1]) : keyphrases[1][i] = Plus
          THEN Split(keyphrases[1], Plus)
          ELSE <<keyphrases[1]>>)
         \o ExpandPlus(Tail(keyphrases))

\* cols = line.strip().split(sep_doc_id)
Cols(ln, sep_doc_id) == Split(Strip(ln), sep_doc_id)

\* doc_id = cols[0].strip()
LineDocId(ln, sep_doc_id) == Strip(Cols(ln, sep_doc_id)[1])

\* keyphrases = cols[1].strip().split(sep_ref_keyphrases), then the '+' loop
LineEntries(ln, sep_doc_id, sep_ref_keyphrases) ==
    ExpandPlus(Split(Strip(Cols(ln, sep_doc_id)[2]), sep_ref_keyphrases))

\* references[doc_id].append(...) for each entry
AppendAll(refs, doc_id, entries) ==
    [ d \in DOMAIN refs \cup {doc_id} |->
        IF d = doc_id
        THEN (IF d \in DOMAIN refs THEN refs[d] ELSE <<>>) \o entries
        ELSE refs[d] ]

\* for i, k in enumerate(references[doc_id]): references[doc_id][i] = stems
StemAll(refs, doc_id) ==
    [ d \in DOMAIN refs |->
        IF d = doc_id THEN [i \in 1..Len(refs[d]) |-> StemPhrase(refs[d][i])]
        ELSE refs[d] ]

\* The documented line format document_id<doc_sep>kp_1<kw_sep>kp_2...: the
\* keyphrase list is everything after the first doc_sep (used by C7 only)
ListedEntries(ln, sep_doc_id, sep_ref_keyphrases) ==
    LET t == Strip(ln)
        i == CHOOSE x \in 1..Len(t) :
                t[x] = sep_doc_id /\ \A y \in 1..(x-1) : t[y] # sep_doc_id
    IN  ExpandPlus(Split(Strip(SubSeq(t, i + 1, Len(t))), sep_ref_keyphrases))

InitRef ==
    /\ IdleDf
    /\ IdleEnum
    /\ IdleTrain
    /\ pc = "lines"
    /\ stoplist = NoStoplist
    /\ n = 0
    /\ frequencies = <<>>
    /\ references = <<>>
    /\ reference_stemming \in BOOLEAN
    /\ lineNo = 0
    /\ line = <<>>
    /\ appended = <<>>
    /\ listed = <<>>

refFixed == <<stoplist, n, frequencies, output_file, files, idx, nb_documents, fs,
              loaded, readLog, unreadable, emitted, enumVars, trainVars,
              reference_stemming>>

\* one pass of "for line in f" on a line that holds the separator
LoadLine ==
    /\ pc = "lines"
    /\ lineNo < MaxLines
    /\ \E ln \in RefLines :
         /\ Len(Cols(ln, Colon)) >= 2
         /\ line' = ln
         /\ LET doc_id == LineDocId(ln, Colon)
                entries == LineEntries(ln, Colon, Comma)
                added == AppendAll(references, doc_id, entries)
            IN  /\ references' = IF reference_stemming THEN StemAll(added, doc_id)
                                 ELSE added
                /\ appended' = AppendAll(appended, doc_id, entries)
                /\ listed' = AppendAll(listed, doc_id,
                                       ListedEntries(ln, Colon, Comma))
    /\ lineNo' = lineNo + 1
    /\ UNCHANGED <<pc, refFixed>>

\* a line without the separator: cols[1] raises IndexError
LoadLineWithoutSeparator ==
    /\ pc = "lines"
    /\ lineNo < MaxLines
    /\ \E ln \in RefLines : Len(Cols(ln, Colon)) < 2 /\ line' = ln
    /\ pc' = "IndexError"
    /\ lineNo' = lineNo + 1
    /\ UNCHANGED <<references, appended, listed, refFixed>>

\* end of file: return references
ReturnReferences ==
    /\ pc = "lines"
    /\ pc' = "references loaded"
    /\ UNCHANGED <<references, lineNo, line, appended, listed, refFixed>>

NextRef == LoadLine \/ LoadLineWithoutSeparator \/ ReturnReferences

SpecRef == InitRef /\ [][NextRef]_vars

(***************************************************************************)
(* train_supervised_model, one input file per step.                        *)
(***************************************************************************)
Slash == "/"

Dot == "."

Extension == <<"x", "m", "l">>

\* names '*.xml' matches in the input directory: letters and inner dots
FileNames ==
    { nm \o <<Dot>> \o Extension :
        nm \in { x \in SeqsUpTo({"a", Dot}, MaxStem) :
                   /\ Len(x) >= 1
                   /\ x[1] # Dot
                   /\ x[Len(x)] # Dot } }

\* what glob.glob(input_dir+'/*.'+extension) can return: distinct paths
FileLists ==
    { fl \in SeqsUpTo({ <<"c", Slash>> \o nm : nm \in FileNames }, MaxDocs) :
        \A a \in 1..Len(fl) : \A b \in 1..Len(fl) : a # b => fl[a] # fl[b] }

Candidates == {"cat", "dog"}

\* model.instances in its iteration order: distinct candidate keys
CandidateOrders ==
    { cs \in SeqsUpTo(Candidates, MaxCands) :
        \A a \in 1..Len(cs) : \A b \in 1..Len(cs) : a # b => cs[a] # cs[b] }

\* what load_references can have returned
ReferenceSets ==
    UNION { [ids -> {<<"cat">>, <<"dog", "shark">>}] :
            ids \in SUBSET {<<"a">>, <<"a", "a">>} }

\* model.instances[candidate] of the document read from input_file
FeatureVector(input_file, candidate) == [doc |-> input_file, key |-> candidate]

\* input_file.split('/')[-1].split('.')[0]
DocId(input_file) ==
    LET parts == Split(input_file, Slash)
    IN  Split(parts[Len(parts)], Dot)[1]

\* references[doc_id] on a defaultdict(list)
Lookup(refs, doc_id) == IF doc_id \in DOMAIN refs THEN refs[doc_id] ELSE <<>>

\* the lookup leaves an empty list behind for a missing doc_id
Touch(refs, doc_id) ==
    [ d \in DOMAIN refs \cup {doc_id} |-> Lookup(refs, d) ]

\* a label looked up in the references of all documents together
LabelAnyDocument(candidate, refs, doc_id) ==
    IF \E d \in DOMAIN refs : \E i \in 1..Len(refs[d]) : refs[d][i] = candidate
    THEN 1 ELSE 0

\* 1 if candidate in references[doc_id] else 0
Label(candidate, refs, doc_id) ==
    IF \E i \in 1..Len(Lookup(refs, doc_id)) : Lookup(refs, doc_id)[i] = candidate
    THEN 1 ELSE 0

InitTrain ==
    /\ IdleEnum
    /\ pc = "files"
    /\ stoplist = NoStoplist
    /\ n = 0
    /\ output_file = <<>>
    /\ frequencies = <<>>
    /\ nb_documents = 0
    /\ fs = NoFile
    /\ loaded = NotLoaded
    /\ readLog = {}
    /\ unreadable = {}
    /\ emitted = <<>>
    /\ files \in FileLists
    /\ idx = 0
    /\ references \in ReferenceSets
    /\ reference_stemming = FALSE
    /\ lineNo = 0
    /\ line = <<>>
    /\ appended = <<>>
    /\ listed = <<>>
    /\ training_instances = <<>>
    /\ training_classes = <<>>
    /\ docIds = <<>>
    /\ selected = <<>>

trainFixed == <<stoplist, n, output_file, files, frequencies, nb_documents, fs,
                loaded, readLog, unreadable, emitted, enumVars,
                reference_stemming, lineNo, line, appended, listed>>

\* one pass of "for input_file in files"
TrainDocument ==
    /\ pc = "files"
    /\ idx < Len(files)
    /\ \E cands \in CandidateOrders :
         LET input_file == files[idx + 1]
             doc_id == DocId(input_file)
         IN  /\ training_classes' = training_classes
                    \o [i \in 1..Len(cands) |-> Label(cands[i], references, doc_id)]
             /\ training_instances' = training_instances
                    \o [i \in 1..Len(cands) |-> FeatureVector(input_file, cands[i])]
             /\ references' = IF Len(cands) > 0 THEN Touch(references, doc_id)
                              ELSE references
             /\ docIds' = Append(docIds, doc_id)
             /\ selected' = Append(selected, cands)
    /\ idx' = idx + 1
    /\ UNCHANGED <<pc, trainFixed>>

\* model.train(training_instances, training_classes, model_file)
TrainModel ==
    /\ pc = "files"
    /\ idx = Len(files)
    /\ pc' = "trained"
    /\ UNCHANGED <<idx, references, trainVars, trainFixed>>

NextTrain == TrainDocument \/ TrainModel

SpecTrain == InitTrain /\ [][NextTrain]_vars

(***************************************************************************)
(* Claims about the span loops (checked under SpecEnum).                   *)
(***************************************************************************)
SpanHasStopword(sent, jj, kk, stop) ==
    \E i \in (jj + 1)..kk : Lower(sent[i].word) \in stop.words

\* C3: a step that reaches a span [j,k) holding at least one token whose
\* lowercase surface form is in the stoplist leaves every presence set as it
\* was; and every key of the table is the key of some span of the sentence
\* that holds no stoplisted token.
C3_StoplistedSpanAddsNothing ==
    [][ /\ (considered' = considered + 1
              /\ SpanHasStopword(sentence, j, k, stoplist))
            => frequencies' = frequencies
        /\ \A key \in DOMAIN frequencies' :
             \E jj \in 0..(Len(sentence) - 1) : \E kk \in (jj + 1)..Len(sentence) :
                /\ Ngram(sentence, jj, kk) = key
                /\ ~SpanHasStopword(sentence, jj, kk, stoplist) ]_vars

\* C3 witness: a span of several tokens, one stoplisted and one not, was
\* reached and rejected, while another span of the sentence was emitted.
C3_Witness ==
    /\ lastSpan.stopped
    /\ lastSpan.k - lastSpan.j >= 2
    /\ \E i \in (lastSpan.j + 1)..lastSpan.k :
          Lower(sentence[i].word) \notin stoplist.words
    /\ DOMAIN frequencies # {}

RECURSIVE SpecSpanSum(_, _, _)
SpecSpanSum(jj, L, nn) ==
    IF jj < 0 THEN 0
    ELSE (Min(jj + 1 + Min(nn, L), L) - (jj + 1)) + SpecSpanSum(jj - 1, L, nn)

RECURSIVE CodeSpanSum(_, _, _)
CodeSpanSum(jj, L, nn) ==
    IF jj < 0 THEN 0
    ELSE (Min(jj + 1 + Min(nn, L), L + 1) - (jj + 1)) + CodeSpanSum(jj - 1, L, nn)

\* C4 as stated: when the loops of a sentence of length L end, the number of
\* spans reached is sum_{j=0}^{L-1} (min(j+1+min(n,L), L) - (j+1)).
C4_SpecSpanCount ==
    pc = "sentence done" =>
        considered = SpecSpanSum(Len(sentence) - 1, Len(sentence), n)

\* C4 amended: for every order n >= 0, when the loops of a sentence of
\* length L end, the number of spans reached is
\* sum_{j=0}^{L-1} (min(j+1+min(n,L), L+1) - (j+1)).
C4_CodeSpanCount ==
    pc = "sentence done" =>
        considered = CodeSpanSum(Len(sentence) - 1, Len(sentence), n)

\* C4 witness: the loops ended on a sentence longer than the order n >= 1.
C4_Witness ==
    /\ pc = "sentence done"
    /\ n >= 1
    /\ Len(sentence) > n
    /\ considered > Len(sentence)

(***************************************************************************)
(* Claims about the corpus run (checked under SpecDF).                     *)
(***************************************************************************)
\* the records of the stream the dump wrote
WrittenRows == CsvRows(Gunzip(fs.bytes).text, Tab).rows

\* C1: in the table written, document_count is the number of documents
\* processed, and the count of every key is at least 1, at most
\* document_count, and the number of distinct documents that emitted the key.
C1_CountIsNumberOfDocuments ==
    fs.exists =>
        LET rows == WrittenRows
            D == Int_(rows[1][2])
        IN  /\ rows[1][1] = Sentinel
            /\ D = Cardinality(DOMAIN emitted)
            /\ \A i \in 2..Len(rows) :
                 LET key == rows[i][1]
                     count == Int_(rows[i][2])
                 IN  /\ count >= 1
                     /\ count <= D
                     /\ count = Cardinality({ f \in DOMAIN emitted :
                                               key \in DOMAIN emitted[f] })

\* C1 witness: a key emitted three times or more by one document and once by
\* another is written with the count 2.
C1_Witness ==
    /\ fs.exists
    /\ \E fA \in DOMAIN emitted : \E fB \in DOMAIN emitted :
         \E key \in DOMAIN emitted[fA] :
            /\ fA # fB
            /\ emitted[fA][key] >= 3
            /\ key \in DOMAIN emitted[fB]
            /\ emitted[fB][key] = 1
            /\ \E i \in 2..Len(WrittenRows) : WrittenRows[i] = <<key, <<"2">>>>

\* C2: reading the output path back gives the sentinel with document_count
\* and every key with the count written, whatever the suffix of the path.
C2_RoundTrip ==
    loaded.status # "not loaded" =>
        /\ loaded.status = "ok"
        /\ Sentinel \in DOMAIN loaded.frequencies
        /\ loaded.frequencies[Sentinel] = nb_documents
        /\ \A key \in DOMAIN frequencies :
             /\ key \in DOMAIN loaded.frequencies
             /\ loaded.frequencies[key] = Cardinality(frequencies[key])

\* C5: a document whose read fails is skipped: the run goes on, and when it
\* ends the table is written and document_count leaves the bad documents out.
C5_BadDocumentSkipped ==
    unreadable # {} =>
        /\ pc \in {"documents", "done"}
        /\ pc = "done" =>
             /\ fs.exists
             /\ nb_documents = Len(files) - Cardinality(unreadable)

\* C8: with an absent stoplist the call fails before any document is read and
\* before any file is opened, and never completes.
C8_AbsentStoplistFailsFirst ==
    stoplist.none =>
        /\ readLog = {}
        /\ ~fs.exists
        /\ pc # "done"

(***************************************************************************)
(* Claims about load_references (checked under SpecRef).                   *)
(***************************************************************************)
\* C7: with stemming disabled, the entries stored for every document are, in
\* order, exactly the keyphrase tokens listed on its lines ('+' tokens
\* replaced by their pieces): none is dropped and none is truncated.
C7_EntriesAreListedTokens ==
    ~reference_stemming => references = listed

\* C9: with stemming enabled, every stored entry is the entry as appended,
\* split on whitespace, each word stemmed exactly once, rejoined with single
\* spaces; also when a document id comes back on a later line.
C9_StemmedExactlyOnce ==
    reference_stemming =>
        /\ DOMAIN references = DOMAIN appended
        /\ \A d \in DOMAIN references :
             /\ Len(references[d]) = Len(appended[d])
             /\ \A i \in 1..Len(references[d]) :
                  references[d][i] = StemPhrase(appended[d][i])

(***************************************************************************)
(* Claims about train_supervised_model (checked under SpecTrain).          *)
(***************************************************************************)
\* the file and the position in its candidate list of every array index
Slots ==
    Concat([d \in 1..Len(selected) |->
              [i \in 1..Len(selected[d]) |-> <<d, i>>]])

\* C6: after any number of documents the two arrays have the same length and
\* index m of both belongs to the same candidate: the arrays are the
\* concatenation, over the documents and their candidates in order, of the
\* candidate's feature vector and of 1 if the candidate is among the entries
\* of references[doc_id], else 0 (0 when the document has no entries).
C6_ArraysAligned ==
    /\ Len(training_instances) = Len(training_classes)
    /\ Len(training_instances) = Len(Slots)
    /\ \A m \in 1..Len(Slots) :
         LET d == Slots[m][1]
             cand == selected[d][Slots[m][2]]
             entries == IF docIds[d] \in DOMAIN references
                        THEN { references[docIds[d]][i] :
                                 i \in 1..Len(references[docIds[d]]) }
                        ELSE {}
         IN  /\ training_instances[m] = FeatureVector(files[d], cand)
             /\ training_classes[m] = (IF cand \in entries THEN 1 ELSE 0)

\* C6 witness: two documents done; the first has reference entries and the
\* labels 1, 0; the second had no entry in the references and its two
\* candidates both got 0, one of them being a keyphrase of the first.
C6_Witness ==
    /\ idx = 2
    /\ training_classes = <<1, 0, 0, 0>>
    /\ Len(selected[1]) = 2
    /\ references[docIds[2]] = <<>>
    /\ docIds[1] # docIds[2]

\* the filename without its directory and without its final extension
FilenameStem(input_file) ==
    LET parts == Split(input_file, Slash)
        pieces == Split(parts[Len(parts)], Dot)
    IN  IF Len(pieces) = 1 THEN pieces[1]
        ELSE Join(SubSeq(pieces, 1, Len(pieces) - 1), <<Dot>>)

\* C10: the doc_id of every file is its filename stem (everything before the
\* last dot), so two files of the corpus never get the same doc_id.
C10_DocIdIsFilenameStem ==
    /\ \A d \in 1..Len(docIds) : docIds[d] = FilenameStem(files[d])
    /\ \A d \in 1..Len(docIds) : \A e \in 1..Len(docIds) :
         d # e => docIds[d] # docIds[e]

====
